---- MODULE Spec2Model ----
(***************************************************************************)
(* Model of OpenRouterClient.createChatCompletion                          *)
(* (src/examples/example_openrouter.ts): cache lookup, schema instruction, *)
(* message formatting, remote call, response cleaning / parsing /          *)
(* validation, recursive retry and cache store.                            *)
(***************************************************************************)
EXTENDS Integers, Sequences, FiniteSets, TLC

\* ---------------------------------------------------------------- bounds
MaxRetries == 1
MaxBody == 3
MaxParts == 2

Inv == {1, 2}

\* ------------------------------------------------------------ characters
\* one character each; the backquote is written "bq"
BT == "bq"
NL == "\n"
SP == " "
Whitespace == {SP, NL}
Fence == <<BT, BT, BT>>
JsonTag == <<"j", "s", "o", "n">>

Min(S) == CHOOSE x \in S : \A y \in S : x <= y
Max(S) == CHOOSE x \in S : \A y \in S : x >= y

\* does text s carry the characters t starting at position p
MatchAt(s, p, t) ==
  /\ p >= 1
  /\ p + Len(t) - 1 <= Len(s)
  /\ SubSeq(s, p, p + Len(t) - 1) = t

AllWhitespace(s, p) == \A k \in p..Len(s) : s[k] \in Whitespace

\* StripOpen without the optional (?:json) group
StripOpenNoJsonTag(s) ==
  LET nonWs == {k \in 1..Len(s) : s[k] \notin Whitespace}
      p1 == IF nonWs = {} THEN Len(s) + 1 ELSE Min(nonWs)
      p2 == p1 + 3
      p4 == IF p2 <= Len(s) /\ s[p2] = NL THEN p2 + 1 ELSE p2
  IN IF MatchAt(s, p1, Fence) THEN SubSeq(s, p4, Len(s)) ELSE s

\* .replace(/^\s*[3 backquotes](?:json)?\n?/g, "")
StripOpen(s) ==
  LET nonWs == {k \in 1..Len(s) : s[k] \notin Whitespace}
      p1 == IF nonWs = {} THEN Len(s) + 1 ELSE Min(nonWs)
      p2 == p1 + 3
      p3 == IF MatchAt(s, p2, JsonTag) THEN p2 + 4 ELSE p2
      p4 == IF p3 <= Len(s) /\ s[p3] = NL THEN p3 + 1 ELSE p3
  IN IF MatchAt(s, p1, Fence) THEN SubSeq(s, p4, Len(s)) ELSE s

\* the places where /\n?[3 backquotes]\s*$/ matches
CloseMatches(s) ==
  {p \in 1..Len(s) :
     \/ s[p] = NL /\ MatchAt(s, p + 1, Fence) /\ AllWhitespace(s, p + 4)
     \/ MatchAt(s, p, Fence) /\ AllWhitespace(s, p + 3)}

\* .replace(/\n?[3 backquotes]\s*$/g, "")
StripClose(s) ==
  IF CloseMatches(s) = {} THEN s
  ELSE SubSeq(s, 1, Min(CloseMatches(s)) - 1)

\* .trim()
Trim(s) ==
  LET nonWs == {k \in 1..Len(s) : s[k] \notin Whitespace}
  IN IF nonWs = {} THEN <<>> ELSE SubSeq(s, Min(nonWs), Max(nonWs))

CleanContent(s) == Trim(StripClose(StripOpen(s)))

\* ------------------------------------------------------ remote responses
\* response?.choices?.[0]?.message and its content
NoMessage == [hasMessage |-> FALSE, content |-> <<>>]
NoContent == [hasMessage |-> TRUE, content |-> <<>>]

ValidArr == <<"[", "1", ",", "1", ",", "1", "]">>
FencedArr == <<BT, BT, BT, "j", "s", "o", "n", NL>> \o ValidArr \o <<NL, BT, BT, BT>>
ShortArr == <<"[", "1", ",", "1", "]">>
ZeroText == <<SP, "0", NL>>
BrokenText == <<"[", "1", ",">>

Contents == {FencedArr, ShortArr, ZeroText, BrokenText}

Responses ==
  {NoMessage, NoContent} \cup {[hasMessage |-> TRUE, content |-> c] : c \in Contents}

\* ---------------------------------------------------------------- values
NumV(k) == [t |-> "num", n |-> k, items |-> <<>>, resp |-> NoMessage]
ArrV(xs) == [t |-> "arr", n |-> 0, items |-> xs, resp |-> NoMessage]
RawV(r) == [t |-> "raw", n |-> 0, items |-> <<>>, resp |-> r]
Absent == [t |-> "absent", n |-> 0, items |-> <<>>, resp |-> NoMessage]

\* JavaScript truthiness, as tested by if (cachedResponse)
Truthy(v) ==
  CASE v.t = "num" -> v.n # 0
    [] v.t = "arr" -> TRUE
    [] v.t = "raw" -> TRUE
    [] OTHER -> FALSE

\* ------------------------------------------------------------ JSON.parse
Digits == {"0", "1", "2", "3"}
DigitVal(c) == CASE c = "0" -> 0 [] c = "1" -> 1 [] c = "2" -> 2 [] OTHER -> 3

ParseOk(v, nxt) == [ok |-> TRUE, val |-> v, err |-> "", next |-> nxt]
ParseFail(e) == [ok |-> FALSE, val |-> Absent, err |-> e, next |-> 0]

RECURSIVE ParseValue(_, _)
RECURSIVE ParseElems(_, _, _)

ParseValue(s, p) ==
  IF p > Len(s) THEN ParseFail("Unexpected end of JSON input")
  ELSE IF s[p] \in Digits THEN ParseOk(NumV(DigitVal(s[p])), p + 1)
  ELSE IF s[p] = "["
    THEN IF p + 1 <= Len(s) /\ s[p + 1] = "]"
         THEN ParseOk(ArrV(<<>>), p + 2)
         ELSE ParseElems(s, p + 1, <<>>)
  ELSE ParseFail("Unexpected token")

ParseElems(s, p, acc) ==
  LET v == ParseValue(s, p)
  IN IF ~v.ok THEN v
     ELSE IF v.next > Len(s) THEN ParseFail("Unexpected end of JSON input")
     ELSE IF s[v.next] = "," THEN ParseElems(s, v.next + 1, Append(acc, v.val))
     ELSE IF s[v.next] = "]" THEN ParseOk(ArrV(Append(acc, v.val)), v.next + 1)
     ELSE ParseFail("Unexpected token")

JSONParse(s) ==
  LET v == ParseValue(s, 1)
  IN IF v.ok /\ v.next <= Len(s) THEN ParseFail("Unexpected token") ELSE v

\* ---------------------------------------------------------------- schema
NoModel == [name |-> "", schema |-> "none"]
StoriesModel == [name |-> "Extraction", schema |-> "array(number).length(3)"]
NumberModel == [name |-> "Extraction", schema |-> "number"]
ResponseModels == {NoModel, StoriesModel, NumberModel}

\* schema.parse(data) succeeds
SchemaAccepts(schema, v) ==
  CASE schema = "array(number).length(3)" ->
         /\ v.t = "arr"
         /\ Len(v.items) = 3
         /\ \A k \in 1..Len(v.items) : v.items[k].t = "num"
    [] schema = "number" -> v.t = "num"
    [] OTHER -> FALSE

\* validateZodSchema returning true from the catch branch as well
validateZodSchemaAlways(schema, data) == TRUE

validateZodSchema(schema, data) == SchemaAccepts(schema, data)

\* -------------------------------------------------------------- messages
TextPart(x) == [type |-> "text", text |-> x, hasImageUrl |-> FALSE, url |-> ""]
ImagePart(u) == [type |-> "image_url", text |-> "", hasImageUrl |-> TRUE, url |-> u]
StringContent(x) == [isArray |-> FALSE, text |-> x, parts |-> <<>>]
ArrayContent(ps) == [isArray |-> TRUE, text |-> "", parts |-> ps]
Turn(r, c) == [role |-> r, content |-> c]

\* message.content.map(...) of lines 215-231
ContentParts(parts) ==
  [k \in 1..Len(parts) |->
     IF parts[k].hasImageUrl THEN ImagePart(parts[k].url) ELSE TextPart(parts[k].text)]

IsTextPart(p) == p.type = "text"

\* FormatMessage whose assistant branch forgets the text filter
FormatMessageUnfiltered(message) ==
  IF message.content.isArray
  THEN LET contentParts == ContentParts(message.content.parts)
       IN IF message.role = "system"
          THEN Turn("system", ArrayContent(SelectSeq(contentParts, IsTextPart)))
          ELSE IF message.role = "user"
          THEN Turn("user", ArrayContent(contentParts))
          ELSE Turn("assistant", ArrayContent(contentParts))
  ELSE Turn("user", message.content)

\* the callback of options.messages.map
FormatMessage(message) ==
  IF message.content.isArray
  THEN LET contentParts == ContentParts(message.content.parts)
       IN IF message.role = "system"
          THEN Turn("system", ArrayContent(SelectSeq(contentParts, IsTextPart)))
          ELSE IF message.role = "user"
          THEN Turn("user", ArrayContent(contentParts))
          ELSE Turn("assistant", ArrayContent(SelectSeq(contentParts, IsTextPart)))
  ELSE Turn("user", message.content)

\* formattedMessages whose plain-string turns keep their declared role
formattedMessagesKeepRole(messages) ==
  [k \in 1..Len(messages) |->
     IF messages[k].content.isArray THEN FormatMessage(messages[k]) ELSE messages[k]]

formattedMessages(messages) == [k \in 1..Len(messages) |-> FormatMessage(messages[k])]

\* the system turn pushed for Gemini models
SchemaInstruction(model) ==
  Turn("system", StringContent(
    IF model.schema = "number"
    THEN "Please format your response according to this schema:\nnumber\n\nRespond with only the JSON object, no additional text or formatting."
    ELSE "Please format your response according to this schema:\narray(number).length(3)\n\nRespond with only the JSON object, no additional text or formatting."))

GeminiModel == "google/gemini-2.0-pro-exp-02-05:free"
OtherModel == "openai/gpt-4o"
ModelNames == {GeminiModel, OtherModel}
\* this.modelName.startsWith("google/gemini")
IsGemini(m) == m = GeminiModel

\* the conversation of the requests: array content with images and plain text
Conversation ==
  <<Turn("system", ArrayContent(<<TextPart("x"), ImagePart("y")>>)),
    Turn("user", ArrayContent(<<ImagePart("y"), TextPart("list 3 headlines")>>)),
    Turn("assistant", StringContent("ok"))>>

NoTools == <<>>
OneTool == <<[name |-> "click", description |-> "click an element", parameters |-> "{}"]>>

\* ----------------------------------------------------------------- state
VARIABLES
  modelName,  \* this.modelName of the client
  enableCaching, \* this.enableCaching of the client each invocation runs on
  cache,      \* the shared LLMCache: cache key -> stored value
  inv,        \* one record per createChatCompletion invocation
  contentIn,  \* a response text given to the cleaning step
  cleanedContent, \* the text as the cleaning step has it so far
  cleanStage,     \* how far the cleaning step is
  messagesIn,     \* a conversation given to the message formatter
  messagesOut     \* the formatter's outbound turns

orchestrator == <<modelName, enableCaching, cache, inv>>
cleaning == <<contentIn, cleanedContent, cleanStage>>
formatting == <<messagesIn, messagesOut>>
vars == <<modelName, enableCaching, cache, inv,
          contentIn, cleanedContent, cleanStage, messagesIn, messagesOut>>

\* the request object handed in by the caller
Options(messages, model, tools, requestId) ==
  [messages |-> messages,
   temperature |-> 0,
   top_p |-> 1,
   frequency_penalty |-> 0,
   presence_penalty |-> 0,
   image |-> "none",
   response_model |-> model,
   tools |-> tools,
   requestId |-> requestId]

NoResult == [kind |-> "pending", val |-> Absent, err |-> <<>>]
Returned(v) == [kind |-> "value", val |-> v, err |-> <<>>]
Thrown(e) == [kind |-> "error", val |-> Absent, err |-> e]

NoBody ==
  [model |-> "", messages |-> <<>>, response_format |-> NoModel,
   stream |-> FALSE, tools |-> <<>>,
   temperature |-> 0, top_p |-> 0, frequency_penalty |-> 0,
   presence_penalty |-> 0, response_model |-> NoModel]

\* CacheOptions that also takes the request identifier into the key
CacheOptionsWithRequestId(options) ==
  [model |-> modelName,
   messages |-> options.messages,
   temperature |-> options.temperature,
   top_p |-> options.top_p,
   frequency_penalty |-> options.frequency_penalty,
   presence_penalty |-> options.presence_penalty,
   image |-> options.image,
   response_model |-> options.response_model,
   requestId |-> options.requestId]

\* const cacheOptions = {...}; messages is the request's own array
CacheOptions(options) ==
  [model |-> modelName,
   messages |-> options.messages,
   temperature |-> options.temperature,
   top_p |-> options.top_p,
   frequency_penalty |-> options.frequency_penalty,
   presence_penalty |-> options.presence_penalty,
   image |-> options.image,
   response_model |-> options.response_model]

NoKey == CacheOptions(Options(<<>>, NoModel, NoTools, ""))

Idle ==
  [pc |-> "idle",
   enableCaching |-> FALSE,
   options |-> Options(<<>>, NoModel, NoTools, ""),
   retries |-> 0,
   body |-> NoBody,
   response |-> NoMessage,
   result |-> NoResult,
   log |-> <<>>,
   \* bookkeeping of what the invocation did
   given |-> Options(<<>>, NoModel, NoTools, ""),
   budget |-> 0,
   calls |-> 0,
   gets |-> 0,
   sets |-> 0,
   hit |-> FALSE,
   allEmpty |-> TRUE,
   firstKey |-> NoKey,
   getKey |-> NoKey,
   got |-> Absent,
   setKey |-> NoKey]

\* cache.get / cache.set of the collaborator
CacheGet(c, key) == IF key \in DOMAIN c THEN c[key] ELSE Absent
CacheSet(c, key, val) ==
  [k \in DOMAIN c \cup {key} |-> IF k = key THEN val ELSE c[k]]
EmptyCache == [k \in {} |-> Absent]

\* options.tools?.map(...)
BodyTools(tools) ==
  [k \in 1..Len(tools) |->
     [type |-> "function",
      function |-> [name |-> tools[k].name,
                    description |-> tools[k].description,
                    parameters |-> tools[k].parameters]]]

\* lines 178-287: schema instruction, formatting, body, remote call issued
Prepare(st) ==
  LET model == st.options.response_model
      push == model # NoModel /\ IsGemini(modelName)
      messages == IF push
                  THEN Append(st.options.messages, SchemaInstruction(model))
                  ELSE st.options.messages
      responseFormat == IF model # NoModel /\ ~IsGemini(modelName)
                        THEN model ELSE NoModel
  IN [st EXCEPT
        !.pc = "awaitCreate",
        !.options.messages = messages,
        !.body = [model |-> modelName,
                  messages |-> formattedMessages(messages),
                  response_format |-> responseFormat,
                  stream |-> FALSE,
                  tools |-> BodyTools(st.options.tools),
                  \* ...openRouterOptions
                  temperature |-> st.options.temperature,
                  top_p |-> st.options.top_p,
                  frequency_penalty |-> st.options.frequency_penalty,
                  presence_penalty |-> st.options.presence_penalty,
                  response_model |-> model],
        !.log = Append(st.log, "creating chat completion"),
        !.calls = @ + 1]

\* lines 121-157: entry of createChatCompletion up to its first await
Call(st) ==
  LET logged == [st EXCEPT !.log = Append(@, "creating chat completion")]
  IN IF st.enableCaching
     THEN [logged EXCEPT
             !.pc = "awaitGet",
             !.getKey = CacheOptions(st.options),
             !.firstKey = IF st.gets = 0 THEN CacheOptions(st.options) ELSE @,
             !.gets = @ + 1]
     ELSE Prepare(logged)

\* OnGet that charges a retry for a miss
OnGetMissCostsRetry(st, cachedResponse) ==
  IF Truthy(cachedResponse)
  THEN [st EXCEPT
          !.pc = "done",
          !.got = cachedResponse,
          !.hit = TRUE,
          !.log = <<"LLM cache hit - returning cached response">>,
          !.result = Returned(cachedResponse)]
  ELSE Prepare([st EXCEPT !.got = cachedResponse, !.log = <<>>, !.retries = @ - 1])

\* lines 158-176: the lookup has returned cachedResponse
OnGet(st, cachedResponse) ==
  IF Truthy(cachedResponse)
  THEN [st EXCEPT
          !.pc = "done",
          !.got = cachedResponse,
          !.hit = TRUE,
          !.log = <<"LLM cache hit - returning cached response">>,
          !.result = Returned(cachedResponse)]
  ELSE Prepare([st EXCEPT !.got = cachedResponse, !.log = <<>>])

\* Retry that re-enters with the budget unchanged
RetryKeepsBudget(st) == Call(st)

\* return this.createChatCompletion({options, logger, retries: retries - 1})
Retry(st) == Call([st EXCEPT !.retries = @ - 1])

\* Throw that records the error but leaves the remote call pending
ThrowKeepsWaiting(st, e) == [st EXCEPT !.result = Thrown(e)]

Throw(st, e) == [st EXCEPT !.pc = "done", !.result = Thrown(e)]

\* NoStore that writes the raw response of the failed attempt to the cache
NoStoreWrites(st) ==
  [st |-> st, store |-> st.enableCaching, key |-> CacheOptions(st.options),
   val |-> RawV(st.response)]

NoStore(st) == [st |-> st, store |-> FALSE, key |-> NoKey, val |-> Absent]

\* if (this.enableCaching) this.cache.set(cacheOptions, value, requestId); return value
Succeed(st, value) ==
  [st |-> [st EXCEPT
             !.pc = "done",
             !.result = Returned(value),
             !.sets = IF st.enableCaching THEN @ + 1 ELSE @,
             !.setKey = IF st.enableCaching THEN CacheOptions(st.options) ELSE @],
   store |-> st.enableCaching,
   key |-> CacheOptions(st.options),
   val |-> value]

\* Catch that retries with the budget unchanged
CatchKeepsBudget(st, message) ==
  LET logged == [st EXCEPT !.log = Append(@, "Failed to parse response")]
  IN IF st.retries > 0
     THEN Call(logged)
     ELSE Throw(logged, <<"Failed to parse response: ", message>>)

\* lines 353-378: the catch block
Catch(st, message) ==
  LET logged == [st EXCEPT !.log = Append(@, "Failed to parse response")]
  IN IF st.retries > 0
     THEN Retry(logged)
     ELSE Throw(logged, <<"Failed to parse response: ", message>>)

\* lines 329-352: the try block
TryParse(st, extractedData) ==
  LET parsed == JSONParse(CleanContent(extractedData))
  IN IF ~parsed.ok THEN NoStore(Catch(st, parsed.err))
     ELSE IF ~validateZodSchema(st.options.response_model.schema, parsed.val)
     THEN IF st.retries > 0
          THEN NoStore(Retry(st))
          ELSE NoStore(Catch(st, "Response does not match the required schema"))
     ELSE Succeed(st, parsed.val)

\* lines 289-385: the remote call has returned response
OnResponse(st0, response) ==
  LET st == [st0 EXCEPT
               !.response = response,
               !.allEmpty = @ /\ ~response.hasMessage,
               !.log = <<"response">>]
  IN IF ~response.hasMessage
     THEN IF st.retries > 0
          THEN NoStore(Retry(st))
          ELSE NoStore(Throw(st, <<"Invalid or empty response from OpenRouter API">>))
     ELSE IF st.options.response_model # NoModel
     THEN IF response.content = <<>>
          THEN IF st.retries > 0
               THEN NoStore(Retry(st))
               ELSE NoStore(Throw(st, <<"No content in response">>))
          ELSE TryParse(st, response.content)
     ELSE Succeed(st, RawV(response))

\* --------------------------------------------------------------- actions
RequestIds == [i \in Inv |-> IF i = 1 THEN "req-1" ELSE "req-2"]
ToolsOf == [i \in Inv |-> IF i = 1 THEN NoTools ELSE OneTool]

\* the caller invokes createChatCompletion({options, retries, logger})
Invoke(i) ==
  /\ inv[i].pc = "idle"
  /\ \E model \in ResponseModels, retries \in 0..MaxRetries :
       LET options == Options(Conversation, model, ToolsOf[i], RequestIds[i])
       IN inv' = [inv EXCEPT ![i] =
                    Call([Idle EXCEPT
                            !.enableCaching = enableCaching[i],
                            !.options = options,
                            !.given = options,
                            !.retries = retries,
                            !.budget = retries])]
  /\ UNCHANGED <<modelName, enableCaching, cache, cleaning, formatting>>

\* await this.cache.get(cacheOptions, options.requestId) resolves
GetReturn(i) ==
  /\ inv[i].pc = "awaitGet"
  /\ inv' = [inv EXCEPT ![i] = OnGet(inv[i], CacheGet(cache, inv[i].getKey))]
  /\ UNCHANGED <<modelName, enableCaching, cache, cleaning, formatting>>

\* CreateReturn with one retry counter shared by all invocations: a retry
\* consumed by invocation i is also taken from every other running one
CreateReturnSharedCounter(i) ==
  /\ inv[i].pc = "awaitCreate"
  /\ \E response \in Responses :
       LET out == OnResponse(inv[i], response)
       IN /\ inv' = [k \in Inv |->
                      IF k = i THEN out.st
                      ELSE IF out.st.retries < inv[i].retries /\ inv[k].retries > 0
                           THEN [inv[k] EXCEPT !.retries = @ - 1]
                           ELSE inv[k]]
          /\ cache' = IF out.store THEN CacheSet(cache, out.key, out.val) ELSE cache
  /\ UNCHANGED <<modelName, enableCaching, cleaning, formatting>>

\* await this.client.chat.completions.create(body) resolves
CreateReturn(i) ==
  /\ inv[i].pc = "awaitCreate"
  /\ \E response \in Responses :
       LET out == OnResponse(inv[i], response)
       IN /\ inv' = [inv EXCEPT ![i] = out.st]
          /\ cache' = IF out.store THEN CacheSet(cache, out.key, out.val) ELSE cache
  /\ UNCHANGED <<modelName, enableCaching, cleaning, formatting>>

CleaningIdle ==
  contentIn = <<>> /\ cleanedContent = <<>> /\ cleanStage = "idle"
FormattingIdle == messagesIn = <<>> /\ messagesOut = <<>>

\* the cache left behind by an earlier invocation of the same client that
\* missed, made one remote call and succeeded with the given response
PriorRun(model, response) ==
  LET options == Options(Conversation, model, NoTools, "req-0")
      entered == Call([Idle EXCEPT !.enableCaching = TRUE,
                                   !.options = options,
                                   !.given = options])
      out == OnResponse(OnGet(entered, Absent), response)
  IN IF out.store THEN CacheSet(EmptyCache, out.key, out.val) ELSE EmptyCache

FencedResponse == [hasMessage |-> TRUE, content |-> FencedArr]

Init ==
  /\ modelName \in ModelNames
  /\ enableCaching \in {[i \in Inv |-> b] : b \in BOOLEAN}
  /\ cache \in {EmptyCache, PriorRun(NoModel, FencedResponse)}
  /\ inv = [i \in Inv |-> Idle]
  /\ CleaningIdle
  /\ FormattingIdle

Next == \E i \in Inv : Invoke(i) \/ GetReturn(i) \/ CreateReturn(i)

Spec == Init /\ [][Next]_vars

\* ----------------------------------------- the cleaning step on its own
\* all texts over chars of length at most n
RECURSIVE TextsUpTo(_, _)
TextsUpTo(chars, n) ==
  IF n = 0 THEN {<<>>}
  ELSE LET shorter == TextsUpTo(chars, n - 1)
       IN shorter \cup {Append(t, c) : t \in shorter, c \in chars}

BodyChars == {BT, NL, SP, "1"}
Bodies == TextsUpTo(BodyChars, MaxBody)
OpenJsonFence == Fence \o JsonTag
OpenFences == {OpenJsonFence, OpenJsonFence \o <<NL>>}
CloseFences == {Fence, <<NL>> \o Fence}
CleanInputs ==
  Bodies \cup {o \o b \o c : o \in OpenFences, b \in Bodies, c \in CloseFences}

InitClean ==
  /\ contentIn \in CleanInputs
  /\ cleanedContent = contentIn
  /\ cleanStage = "raw"
  /\ modelName = GeminiModel
  /\ enableCaching = [i \in Inv |-> FALSE]
  /\ cache = EmptyCache
  /\ inv = [i \in Inv |-> Idle]
  /\ FormattingIdle

\* line 332
ReplaceOpening ==
  /\ cleanStage = "raw"
  /\ cleanedContent' = StripOpen(cleanedContent)
  /\ cleanStage' = "opened"
  /\ UNCHANGED <<contentIn, orchestrator, formatting>>

\* line 333
ReplaceClosing ==
  /\ cleanStage = "opened"
  /\ cleanedContent' = StripClose(cleanedContent)
  /\ cleanStage' = "closed"
  /\ UNCHANGED <<contentIn, orchestrator, formatting>>

\* line 334
TrimContent ==
  /\ cleanStage = "closed"
  /\ cleanedContent' = Trim(cleanedContent)
  /\ cleanStage' = "cleaned"
  /\ UNCHANGED <<contentIn, orchestrator, formatting>>

NextClean == ReplaceOpening \/ ReplaceClosing \/ TrimContent

SpecClean == InitClean /\ [][NextClean]_vars

\* ------------------------------------- the message formatter on its own
Roles == {"system", "user", "assistant"}
PartChoices == {TextPart("a"), TextPart("b"), ImagePart("u")}
ContentChoices ==
  {StringContent("s")} \cup {ArrayContent(ps) : ps \in TextsUpTo(PartChoices, MaxParts)}
TurnChoices == {Turn(r, c) : r \in Roles, c \in ContentChoices}

InitFormat ==
  /\ messagesIn \in {<<t>> : t \in TurnChoices}
                  \cup {<<t, u>> : t \in TurnChoices, u \in {Turn("user", StringContent("s")), Turn("assistant", ArrayContent(<<ImagePart("u"), TextPart("a")>>)), SchemaInstruction(StoriesModel)}}
  /\ messagesOut = <<>>
  /\ modelName = GeminiModel
  /\ enableCaching = [i \in Inv |-> FALSE]
  /\ cache = EmptyCache
  /\ inv = [i \in Inv |-> Idle]
  /\ CleaningIdle

\* lines 212-269
FormatMessages ==
  /\ messagesIn # <<>>
  /\ messagesOut = <<>>
  /\ messagesOut' = formattedMessages(messagesIn)
  /\ UNCHANGED <<messagesIn, orchestrator, cleaning>>

NextFormat == FormatMessages

SpecFormat == InitFormat /\ [][NextFormat]_vars

\* --------------------- every lookup and every remote call returns
\* a pending cache.get and a pending chat.completions.create of each
\* invocation eventually resolve
Fairness ==
  \A i \in Inv : WF_vars(GetReturn(i)) /\ WF_vars(CreateReturn(i))

\* a freshly constructed client: nothing has been stored yet
InitLive == Init /\ cache = EmptyCache

SpecLive == InitLive /\ [][Next]_vars /\ Fairness

\* ------------------------- a client without cache beside one with cache
\* invocation 1 runs on a client with caching disabled, invocation 2 on a
\* client with caching enabled; both are given the same request and every
\* remote response is delivered to both
ZeroResponse == [hasMessage |-> TRUE, content |-> ZeroText]

InitHint ==
  /\ modelName \in ModelNames
  /\ enableCaching = [i \in Inv |-> i = 2]
  /\ cache \in {EmptyCache,
                PriorRun(NoModel, FencedResponse),
                PriorRun(StoriesModel, FencedResponse),
                PriorRun(NumberModel, ZeroResponse)}
  /\ inv = [i \in Inv |-> Idle]
  /\ CleaningIdle
  /\ FormattingIdle

InvokeBoth ==
  /\ \A i \in Inv : inv[i].pc = "idle"
  /\ \E model \in ResponseModels, retries \in 0..MaxRetries :
       inv' = [i \in Inv |->
                 LET options == Options(Conversation, model, ToolsOf[i], RequestIds[i])
                 IN Call([Idle EXCEPT
                            !.enableCaching = enableCaching[i],
                            !.options = options,
                            !.given = options,
                            !.retries = retries,
                            !.budget = retries])]
  /\ UNCHANGED <<modelName, enableCaching, cache, cleaning, formatting>>

CreateReturnBoth ==
  /\ \A i \in Inv : inv[i].pc = "awaitCreate"
  /\ \E response \in Responses :
       LET out1 == OnResponse(inv[1], response)
           out2 == OnResponse(inv[2], response)
           cache1 == IF out1.store THEN CacheSet(cache, out1.key, out1.val) ELSE cache
       IN /\ inv' = [i \in Inv |-> IF i = 1 THEN out1.st ELSE out2.st]
          /\ cache' = IF out2.store THEN CacheSet(cache1, out2.key, out2.val) ELSE cache1
  /\ UNCHANGED <<modelName, enableCaching, cleaning, formatting>>

NextHint == InvokeBoth \/ GetReturn(2) \/ CreateReturnBoth

SpecHint == InitHint /\ [][NextHint]_vars

\* ---------------------------- requests with a turn of an unsupported role
\* a conversation whose second and third turns carry a role outside
\* system/user/assistant, one with array content and one with a plain string
MalformedConversation ==
  <<Turn("user", ArrayContent(<<ImagePart("y"), TextPart("list 3 headlines")>>)),
    Turn("tool", ArrayContent(<<TextPart("x"), ImagePart("y")>>)),
    Turn("tool", StringContent("ok"))>>

InitRole ==
  /\ modelName \in ModelNames
  /\ enableCaching \in {[i \in Inv |-> b] : b \in BOOLEAN}
  /\ cache = EmptyCache
  /\ inv = [i \in Inv |-> Idle]
  /\ CleaningIdle
  /\ FormattingIdle

\* the caller invokes createChatCompletion with the malformed conversation
InvokeMalformed(i) ==
  /\ inv[i].pc = "idle"
  /\ \E model \in ResponseModels, retries \in 0..MaxRetries :
       LET options == Options(MalformedConversation, model, ToolsOf[i], RequestIds[i])
       IN inv' = [inv EXCEPT ![i] =
                    Call([Idle EXCEPT
                            !.enableCaching = enableCaching[i],
                            !.options = options,
                            !.given = options,
                            !.retries = retries,
                            !.budget = retries])]
  /\ UNCHANGED <<modelName, enableCaching, cache, cleaning, formatting>>

NextRole == \E i \in Inv : InvokeMalformed(i) \/ GetReturn(i) \/ CreateReturn(i)

SpecRole == InitRole /\ [][NextRole]_vars

\* ------------------------------------------------------- claim vocabulary
Done(i) == inv[i].pc = "done"
Failed(i) == Done(i) /\ inv[i].result.kind = "error"
Succeeded(i) == Done(i) /\ inv[i].result.kind = "value"
SchemaPath(i) == inv[i].pc # "idle" /\ inv[i].given.response_model # NoModel

\* the stage at which a response fails for a request with this response_model
ResponseKind(model, response) ==
  IF ~response.hasMessage THEN "empty"
  ELSE IF model = NoModel THEN "ok"
  ELSE IF response.content = <<>> THEN "nocontent"
  ELSE LET txt == Trim(StripClose(StripOpen(response.content)))
           parsed == ParseValue(txt, 1)
       IN IF ~parsed.ok \/ parsed.next <= Len(txt) THEN "parse"
          ELSE IF ~SchemaAccepts(model.schema, parsed.val) THEN "mismatch"
          ELSE "ok"

\* this step is invocation i handling the response of its remote call
Responded(i) == inv[i].pc = "awaitCreate" /\ inv'[i] # inv[i]
\* this step is invocation i resuming from its cache lookup
LookedUp(i) == inv[i].pc = "awaitGet" /\ inv'[i] # inv[i]
LastKind(i) == ResponseKind(inv[i].given.response_model, inv[i].response)

SameKeyFields(a, b) ==
  /\ a.messages = b.messages
  /\ a.temperature = b.temperature
  /\ a.top_p = b.top_p
  /\ a.frequency_penalty = b.frequency_penalty
  /\ a.presence_penalty = b.presence_penalty
  /\ a.image = b.image
  /\ a.response_model = b.response_model

EmptyError == <<"Invalid or empty response from OpenRouter API">>

\* --------------------------------------------------------------------- C1
\* C1 (retry exhaustion): an invocation that never hit the cache and whose
\* every remote call returned no usable message has made at most N+1 remote
\* calls, and once it has ended it has made exactly N+1 calls and failed
\* with the empty-response error.
RetryExhaustion ==
  \A i \in Inv :
    (inv[i].pc # "idle" /\ inv[i].allEmpty /\ ~inv[i].hit) =>
      /\ inv[i].calls <= inv[i].budget + 1
      /\ Done(i) => /\ inv[i].calls = inv[i].budget + 1
                    /\ inv[i].result = Thrown(EmptyError)

RetryExhaustionWitness ==
  \E i \in Inv :
    /\ Failed(i) /\ inv[i].allEmpty /\ ~inv[i].hit
    /\ inv[i].budget = MaxRetries
    /\ inv[i].calls = MaxRetries + 1

\* --------------------------------------------------------------------- C2
\* C2 (cache determinism): two invocations whose requests agree on every key
\* field hand the same CacheKey to their first lookup although their request
\* identifiers and tools differ; and when one of them returned a hit from
\* its first lookup and that entry is still in the cache, the first lookup
\* of the other returns the same value with no remote call.
CacheDeterminismStep ==
  \A i, j \in Inv :
    ( /\ i # j
      /\ inv[i].pc # "idle" /\ inv[j].pc # "idle"
      /\ inv[i].enableCaching /\ inv[j].enableCaching
      /\ inv[i].given.requestId # inv[j].given.requestId
      /\ SameKeyFields(inv[i].given, inv[j].given) ) =>
        /\ inv[i].firstKey = inv[j].firstKey
        /\ ( /\ inv[i].hit /\ inv[i].calls = 0
             /\ CacheGet(cache, inv[i].firstKey) = inv[i].result.val
             /\ inv[j].gets = 1 /\ LookedUp(j) ) =>
               /\ inv'[j].pc = "done"
               /\ inv'[j].result = inv[i].result
               /\ inv'[j].calls = 0

CacheDeterminism == [][CacheDeterminismStep]_vars

CacheDeterminismWitness ==
  \E i, j \in Inv :
    /\ i # j
    /\ inv[i].hit /\ inv[i].calls = 0
    /\ inv[j].hit /\ inv[j].calls = 0
    /\ inv[i].given.requestId # inv[j].given.requestId
    /\ inv[i].given.tools # inv[j].given.tools
    /\ SameKeyFields(inv[i].given, inv[j].given)
    /\ inv[i].result = inv[j].result

\* --------------------------------------------------------------------- C3
\* C3 (cache hit short-circuit): when the lookup at the start of an
\* invocation finds an entry under its key, the invocation ends returning
\* exactly that entry, with no remote call, no cache store and the retry
\* budget untouched.
CacheHitShortCircuitStep ==
  \A i \in Inv :
    ( /\ LookedUp(i) /\ inv[i].gets = 1
      /\ inv[i].getKey \in DOMAIN cache ) =>
        /\ inv'[i].pc = "done"
        /\ inv'[i].result = Returned(cache[inv[i].getKey])
        /\ inv'[i].calls = 0
        /\ inv'[i].sets = 0
        /\ inv'[i].retries = inv[i].budget
        /\ cache' = cache

CacheHitShortCircuit == [][CacheHitShortCircuitStep]_vars

\* --------------------------------------------------------------------- C4
\* C4 (store/lookup key agreement): an invocation with an output schema
\* that succeeded through a remote call stored its value under the CacheKey
\* it used for its own first lookup.
StoreLookupKeyAgreement ==
  \A i \in Inv :
    (SchemaPath(i) /\ Succeeded(i) /\ inv[i].sets > 0) =>
      inv[i].setKey = inv[i].firstKey

\* --------------------------------------------------------------------- C5
\* C5 (schema gate): on the schema path every value returned and every value
\* stored under a key with a schema conforms to that schema; a response whose
\* parsed value does not conform consumes one retry when budget remains and
\* ends the invocation with a failure at budget 0, storing nothing.
SchemaGateState ==
  /\ \A i \in Inv :
       (SchemaPath(i) /\ Succeeded(i)) =>
         SchemaAccepts(inv[i].given.response_model.schema, inv[i].result.val)
  /\ \A k \in DOMAIN cache :
       k.response_model # NoModel =>
         SchemaAccepts(k.response_model.schema, cache[k])

SchemaGateStep ==
  \A i \in Inv :
    (Responded(i) /\
     ResponseKind(inv[i].given.response_model, inv'[i].response) = "mismatch") =>
      /\ cache' = cache
      /\ inv'[i].sets = inv[i].sets
      /\ inv[i].retries > 0 =>
           /\ inv'[i].pc \in {"awaitGet", "awaitCreate"}
           /\ inv'[i].retries = inv[i].retries - 1
      /\ inv[i].retries = 0 =>
           /\ inv'[i].pc = "done"
           /\ inv'[i].result.kind = "error"

SchemaGate == []SchemaGateState /\ [][SchemaGateStep]_vars

SchemaGateWitness ==
  \E i \in Inv :
    /\ SchemaPath(i) /\ Failed(i) /\ ~inv[i].hit
    /\ inv[i].budget > 0
    /\ inv[i].response = [hasMessage |-> TRUE, content |-> ShortArr]
    /\ inv[i].given.response_model = StoriesModel

\* --------------------------------------------------------------------- C6
\* C6 (terminal failure names the stage): the failure surfaced at budget 0
\* is "Invalid or empty response" for a missing message, "No content in
\* response" for missing content, "Failed to parse response: <cause>" for a
\* JSON parse failure and "Response does not match the required schema" for
\* a schema mismatch.
TerminalFailureStage ==
  \A i \in Inv :
    Failed(i) =>
      CASE LastKind(i) = "empty" -> inv[i].result.err = EmptyError
        [] LastKind(i) = "nocontent" ->
             inv[i].result.err = <<"No content in response">>
        [] LastKind(i) = "parse" ->
             /\ Len(inv[i].result.err) = 2
             /\ inv[i].result.err[1] = "Failed to parse response: "
             /\ inv[i].result.err[2] # "Response does not match the required schema"
        [] LastKind(i) = "mismatch" ->
             inv[i].result.err = <<"Response does not match the required schema">>
        [] OTHER -> FALSE

\* --------------------------------------------------------------------- C7
\* C7 (role-content filtering): every turn with array content is sent with
\* its declared role; a system or assistant turn carries exactly its text
\* parts in their original order, a user turn carries every text and image
\* part in original order.
RECURSIVE KeptParts(_, _)
KeptParts(parts, keepImages) ==
  IF parts = <<>> THEN <<>>
  ELSE LET rest == KeptParts(Tail(parts), keepImages)
       IN IF Head(parts).type = "text" THEN <<TextPart(Head(parts).text)>> \o rest
          ELSE IF keepImages THEN <<ImagePart(Head(parts).url)>> \o rest
          ELSE rest

RoleContentFiltering ==
  messagesOut # <<>> =>
    /\ Len(messagesOut) = Len(messagesIn)
    /\ \A k \in 1..Len(messagesIn) :
         messagesIn[k].content.isArray =>
           /\ messagesOut[k].role = messagesIn[k].role
           /\ messagesOut[k].content.isArray
           /\ messagesOut[k].content.parts =
                KeptParts(messagesIn[k].content.parts, messagesIn[k].role = "user")

RoleContentFilteringWitness ==
  \E k \in 1..Len(messagesOut) :
    /\ messagesIn[k].role = "assistant"
    /\ messagesIn[k].content.parts = <<ImagePart("u"), TextPart("a")>>
    /\ messagesOut[k].content.parts = <<TextPart("a")>>

\* --------------------------------------------------------------------- C8
HasFence(t) == \E p \in 1..Len(t) : MatchAt(t, p, Fence)
IsFenced(t) ==
  /\ Len(t) >= Len(OpenJsonFence) + Len(Fence)
  /\ MatchAt(t, 1, OpenJsonFence)
  /\ MatchAt(t, Len(t) - Len(Fence) + 1, Fence)
FencedBody(t) == SubSeq(t, Len(OpenJsonFence) + 1, Len(t) - Len(Fence))

\* c is t without its leading and trailing whitespace
IsTrimOf(c, t) ==
  /\ c = <<>> \/ (c[1] \notin Whitespace /\ c[Len(c)] \notin Whitespace)
  /\ \E a \in 0..Len(t) :
       /\ a + Len(c) <= Len(t)
       /\ SubSeq(t, a + 1, a + Len(c)) = c
       /\ \A k \in 1..a : t[k] \in Whitespace
       /\ \A k \in (a + Len(c) + 1)..Len(t) : t[k] \in Whitespace

\* C8 as claimed (cleaning is a no-op on fence-free text): a text without a
\* code-fence marker comes out of the cleaning step unchanged, and a text
\* made of an opening json fence, a body and a closing fence comes out as
\* exactly the body.
CleaningNoOp ==
  cleanStage = "cleaned" =>
    /\ ~HasFence(contentIn) => cleanedContent = contentIn
    /\ IsFenced(contentIn) => cleanedContent = FencedBody(contentIn)

\* C8 as amended: a text without a code-fence marker comes out of the
\* cleaning step with only its leading and trailing whitespace removed, and
\* a text made of an opening json fence, a body and a closing fence comes
\* out as the body without its leading and trailing whitespace.
CleaningTrims ==
  cleanStage = "cleaned" =>
    /\ ~HasFence(contentIn) => IsTrimOf(cleanedContent, contentIn)
    /\ IsFenced(contentIn) => IsTrimOf(cleanedContent, FencedBody(contentIn))

CleaningTrimsWitness ==
  /\ cleanStage = "cleaned"
  /\ contentIn = OpenJsonFence \o <<NL, "1", "1", NL>> \o Fence
  /\ cleanedContent = <<"1", "1">>

\* --------------------------------------------------------------------- C9
\* C9 (the cache is only a hint): given the same request and the same remote
\* responses, the invocation with caching enabled, as long as none of its
\* lookups hit, is in step with the invocation with caching disabled: the
\* same remaining retries and remote calls while waiting for the remote
\* call, the same result and number of remote calls at the end; the
\* invocation with caching disabled never reads or writes the cache.
CacheOnlyHint ==
  /\ \A i \in Inv :
       ~inv[i].enableCaching => inv[i].gets = 0 /\ inv[i].sets = 0
  /\ (inv[2].pc \in {"awaitCreate", "done"} /\ ~inv[2].hit) =>
       /\ inv[1].pc = inv[2].pc
       /\ inv[1].retries = inv[2].retries
       /\ inv[1].calls = inv[2].calls
       /\ inv[1].result = inv[2].result

CacheOnlyHintWitness ==
  /\ Done(1) /\ Succeeded(2) /\ ~inv[2].hit
  /\ inv[2].gets = MaxRetries + 1
  /\ inv[2].sets = 1
  /\ inv[1].calls = MaxRetries + 1

\* -------------------------------------------------------------------- C10
\* C10 (shared retry budget): the remaining-retries counter never goes below
\* 0, an invocation never makes more than N+1 remote calls, and every
\* response that fails at any stage while budget remains lowers the one
\* counter by exactly 1; no other step changes it.
SharedBudgetState ==
  \A i \in Inv :
    /\ inv[i].retries >= 0
    /\ inv[i].calls <= inv[i].budget + 1

SharedBudgetStep ==
  \A i \in Inv :
    /\ (Responded(i) /\
        ResponseKind(inv[i].given.response_model, inv'[i].response)
          \in {"empty", "nocontent", "parse", "mismatch"}) =>
          IF inv[i].retries > 0
          THEN inv'[i].retries = inv[i].retries - 1 /\ inv'[i].pc # "done"
          ELSE inv'[i].retries = 0 /\ inv'[i].pc = "done"
    /\ (inv[i].pc # "idle" /\ ~Responded(i)) => inv'[i].retries = inv[i].retries

SharedRetryBudget == []SharedBudgetState /\ [][SharedBudgetStep]_vars

SharedRetryBudgetWitness ==
  \E i \in Inv :
    /\ SchemaPath(i) /\ Failed(i) /\ ~inv[i].hit
    /\ inv[i].budget = MaxRetries
    /\ inv[i].calls = MaxRetries + 1
    /\ ~inv[i].allEmpty
    /\ LastKind(i) = "empty"

\* -------------------------------------------------------------------- C11
\* C11 (a retry is a fresh remote call): an invocation that has made a
\* remote call returns a value only from a remote call of its own; a value
\* taken from the cache is returned only by an invocation that has made no
\* remote call.
RetryIsFreshCall ==
  \A i \in Inv :
    (Succeeded(i) /\ inv[i].hit) => inv[i].calls = 0

\* -------------------------------------------------------------------- C12
\* C12 (retries resend the same conversation): for a request with an output
\* schema on a Gemini model the outbound messages of every attempt are the
\* caller's turns followed by exactly one schema-instruction turn.
SameConversationEveryAttempt ==
  \A i \in Inv :
    (SchemaPath(i) /\ IsGemini(modelName) /\ inv[i].calls > 0) =>
      inv[i].body.messages =
        formattedMessages(Append(inv[i].given.messages,
                                 SchemaInstruction(inv[i].given.response_model)))

\* -------------------------------------------------------------------- C13
\* C13 (schema mismatch is not logged as a parse failure): the step that
\* handles a response logs "Failed to parse response" only when the cleaned
\* text of that response failed JSON parsing; a response that parsed but
\* violated the schema never produces that log event.
ParseLogOnlyForParseFailureStep ==
  \A i \in Inv :
    (Responded(i) /\
     \E k \in 1..Len(inv'[i].log) : inv'[i].log[k] = "Failed to parse response") =>
      ResponseKind(inv[i].given.response_model, inv'[i].response) = "parse"

ParseLogOnlyForParseFailure == [][ParseLogOnlyForParseFailureStep]_vars

\* -------------------------------------------------------------------- C14
\* C14 (plain-string fallback): every turn whose content is not an array of
\* parts is sent as a user turn carrying the same string, whatever role was
\* declared, the schema-instruction turn included; hence every outbound turn
\* with string content has role user.
PlainStringFallback ==
  messagesOut # <<>> =>
    /\ Len(messagesOut) = Len(messagesIn)
    /\ \A k \in 1..Len(messagesIn) :
         ~messagesIn[k].content.isArray =>
           messagesOut[k] = Turn("user", StringContent(messagesIn[k].content.text))
    /\ \A k \in 1..Len(messagesOut) :
         ~messagesOut[k].content.isArray => messagesOut[k].role = "user"

PlainStringFallbackWitness ==
  \E k \in 1..Len(messagesOut) :
    /\ messagesIn[k] = SchemaInstruction(StoriesModel)
    /\ messagesOut[k].role = "user"
    /\ messagesOut[k].content = messagesIn[k].content

\* -------------------------------------------------------------------- C15
\* C15 (unsupported role is fatal): an invocation whose request contains a
\* turn with a role other than system, user, assistant issues no remote
\* call, consumes no retry, and ends in failure.
HasUnsupportedRole(messages) ==
  \E k \in 1..Len(messages) : messages[k].role \notin Roles

UnsupportedRoleIsFatal ==
  \A i \in Inv :
    (inv[i].pc # "idle" /\ HasUnsupportedRole(inv[i].given.messages)) =>
      /\ inv[i].calls = 0
      /\ inv[i].retries = inv[i].budget
      /\ Done(i) => Failed(i)

\* -------------------------------------------------------------------- C16
\* C16 (independent retry counters): in every interleaving of concurrent
\* invocations, invocation i makes at most N_i + 1 remote calls, and a step
\* of one invocation, a failure included, never changes another
\* invocation's remaining budget or its number of remote calls.
IndependentCountersState ==
  \A i \in Inv : inv[i].calls <= inv[i].budget + 1

IndependentCountersStep ==
  \A i \in Inv : \A j \in Inv \ {i} :
    inv'[i] # inv[i] =>
      /\ inv'[j].retries = inv[j].retries
      /\ inv'[j].budget = inv[j].budget
      /\ inv'[j].calls = inv[j].calls

IndependentRetryCounters ==
  []IndependentCountersState /\ [][IndependentCountersStep]_vars

IndependentRetryCountersWitness ==
  /\ Failed(1) /\ Failed(2)
  /\ inv[1].budget = 0 /\ inv[1].calls = 1
  /\ inv[2].budget = MaxRetries /\ inv[2].calls = MaxRetries + 1
  /\ inv[2].retries = 0

\* -------------------------------------------------------------------- C17
\* C17 (cache is written only on success): an invocation stores at most
\* once, and only in the step that ends it successfully after a remote call;
\* the value stored is the raw response on the no-schema path and the parsed,
\* schema-conforming value on the schema path; a failed attempt, a terminal
\* failure, a lookup and an invocation leave the cache contents unchanged.
CacheWriteState ==
  \A i \in Inv :
    /\ inv[i].sets <= 1
    /\ inv[i].sets = 1 => (Succeeded(i) /\ ~inv[i].hit /\ inv[i].enableCaching)
    /\ Failed(i) => inv[i].sets = 0

CacheWriteStep ==
  /\ \A i \in Inv :
       Responded(i) =>
         IF inv'[i].pc = "done" /\ inv'[i].result.kind = "value" /\ inv[i].enableCaching
         THEN /\ inv'[i].sets = inv[i].sets + 1
              /\ cache' = CacheSet(cache, inv'[i].setKey, inv'[i].result.val)
              /\ ResponseKind(inv[i].given.response_model, inv'[i].response) = "ok"
              /\ IF inv[i].given.response_model = NoModel
                 THEN inv'[i].result.val = RawV(inv'[i].response)
                 ELSE SchemaAccepts(inv[i].given.response_model.schema,
                                    inv'[i].result.val)
         ELSE /\ inv'[i].sets = inv[i].sets
              /\ cache' = cache
  /\ (\A i \in Inv : ~Responded(i)) => cache' = cache

CacheWrittenOnlyOnSuccess == []CacheWriteState /\ [][CacheWriteStep]_vars

CacheWrittenOnlyOnSuccessWitness ==
  \E i \in Inv : \E j \in Inv \ {i} :
    /\ Succeeded(i) /\ inv[i].sets = 1 /\ inv[i].calls = 2
    /\ inv[i].setKey \in DOMAIN cache
    /\ cache[inv[i].setKey] = inv[i].result.val
    /\ Failed(j) /\ inv[j].enableCaching /\ inv[j].calls = inv[j].budget + 1

\* -------------------------------------------------------------------- C18
\* C18 (termination): if every cache lookup and every remote call
\* eventually returns, every invocation eventually ends, with a value or
\* with a failure; it cannot retry forever.
Termination ==
  \A i \in Inv : (inv[i].pc # "idle") ~> Done(i)

TerminationWitness ==
  \E i \in Inv : \E j \in Inv \ {i} :
    /\ Failed(i) /\ inv[i].budget = MaxRetries /\ inv[i].retries = 0
    /\ inv[i].calls = MaxRetries + 1 /\ inv[i].gets = MaxRetries + 1
    /\ Succeeded(j) /\ inv[j].calls = MaxRetries + 1

\* -------------------------------------------------------------------- C19
\* C19 (request left unchanged): once an invocation has ended, the
\* conversation turns of its request are those the caller passed in.
RequestLeftUnchanged ==
  \A i \in Inv :
    Done(i) => inv[i].options.messages = inv[i].given.messages

\* -------------------------------------------------------------------- C20
\* C20 (every stored result is a hit): whenever a lookup finds an entry
\* under its key, whatever the stored value, the invocation returns that
\* entry without issuing a remote call.
EveryStoredResultHitsStep ==
  \A i \in Inv :
    (LookedUp(i) /\ inv[i].getKey \in DOMAIN cache) =>
      /\ inv'[i].pc = "done"
      /\ inv'[i].result = Returned(cache[inv[i].getKey])
      /\ inv'[i].calls = inv[i].calls

EveryStoredResultHits == [][EveryStoredResultHitsStep]_vars

====
